---- MODULE Spec2Model ----
(***************************************************************************)
(* The two ink! contracts of arkavo-node:                                  *)
(*   contracts/access_registry  (entitlements and session grants)          *)
(*   contracts/attribute_store  (attributes, writers, roots and anchors)   *)
(* The host ledger supplies the caller, the block number and the           *)
(* append-only event log, and runs one message at a time.                  *)
(***************************************************************************)
EXTENDS Integers, Sequences, FiniteSets, TLC

(* ---------------- bounds of the model ---------------- *)

\* the host's event log holds at most MaxEvents events: a call that would
\* append one more is not issued
MaxEvents == 3

\* block numbers run over 0..MaxBlock
MaxBlock == 1

\* the log of the ledger that runs both contracts holds at most MaxNodeEvents
\* events
MaxNodeEvents == 2

(* ---------------- input domains ---------------- *)

Address == {"a1", "a2", "a3"}

\* the callers of the two constructors
Deployer == {"a1"}

\* the accounts that are granted entitlements and given roots
Subject == {"a2", "a3"}

\* the account whose attributes are written and who delegates writers
AttributeSubject == {"a2"}

SessionId == {"sid1", "sid2"}

\* <<eph_pub_key, scope_id, expires_at_block>>: eph_pub_key is a Vec<u8>,
\* scope_id a [u8; 32], expires_at_block a u64 (below and above every block number)
SessionInput ==
    {<<(<<2>>), "scopeA", 0>>, <<(<<3>>), "scopeB", 5>>,
     <<(<<2>>), "scopeB", 5>>, <<(<<3>>), "scopeA", 0>>}

(* ---------------- Option<T> and Mapping<K, V> ---------------- *)

\* Option<T>: None is the empty sequence, Some(v) the one-element sequence
OptNone == <<>>

Some(v) == <<v>>

\* ink::storage::Mapping: a function on the keys that hold a value
EmptyMapping == <<>>

MappingGet(m, k) == IF k \in DOMAIN m THEN Some(m[k]) ELSE OptNone

MappingInsert(m, k, v) == [x \in (DOMAIN m) \cup {k} |-> IF x = k THEN v ELSE m[x]]

MappingRemove(m, k) == [x \in (DOMAIN m) \ {k} |-> m[x]]

(* ---------------- state ---------------- *)

VARIABLES
    entitlements,        \* AccessRegistry: Mapping<Address, EntitlementLevel>
    sessions,            \* AccessRegistry: Mapping<[u8; 32], SessionGrant>
    registry_owner,      \* AccessRegistry.owner
    attributes,          \* AttributeStore: Mapping<(Address, String, String), String>
    authorized_writers,  \* AttributeStore: Mapping<(Address, Address), bool>
    store_owner,         \* AttributeStore.owner
    roots,               \* AttributeStore: Mapping<Address, [u8; 32]>
    authorized_anchors,  \* AttributeStore: Mapping<Address, bool>
    events,              \* the host's event log, in emission order
    block_number,        \* the host's current block number
    call,                \* the message last executed: operation, caller, arguments
    result               \* what that message returned

registryVars == <<entitlements, sessions, registry_owner>>

storeVars == <<attributes, authorized_writers, store_owner, roots, authorized_anchors>>

vars == <<entitlements, sessions, registry_owner, attributes, authorized_writers,
          store_owner, roots, authorized_anchors, events, block_number, call, result>>

Call(op, caller, args) == [op |-> op, caller |-> caller, args |-> args]

\* room in the event log for one more event
LogHasRoom == Len(events) < MaxEvents

(* ======================= AccessRegistry ======================= *)

EntitlementLevel == {"None", "Basic", "Premium", "Vip"}

\* #[default] of EntitlementLevel
DefaultLevel == "None"

\* level_value with the values of Basic and Premium exchanged
level_value_Swapped(level) ==
    CASE level = "None" -> 0
      [] level = "Basic" -> 2
      [] level = "Premium" -> 1
      [] level = "Vip" -> 3

level_value(level) ==
    CASE level = "None" -> 0
      [] level = "Basic" -> 1
      [] level = "Premium" -> 2
      [] level = "Vip" -> 3

SessionGrant(eph_pub_key, scope_id, expires_at_block, is_revoked, created_at_block) ==
    [eph_pub_key |-> eph_pub_key,
     scope_id |-> scope_id,
     expires_at_block |-> expires_at_block,
     is_revoked |-> is_revoked,
     created_at_block |-> created_at_block]

get_entitlement(account) ==
    LET stored == MappingGet(entitlements, account)
    IN  IF stored = OptNone THEN DefaultLevel ELSE stored[1]

has_entitlement(account, required_level) ==
    level_value(get_entitlement(account)) >= level_value(required_level)


\* AccessRegistry::owner()
access_registry_owner == registry_owner

get_session(session_id) == MappingGet(sessions, session_id)

\* grant_entitlement that never lowers a stored level
grant_entitlement_OnlyUpgrades(caller, account, level) ==
    /\ call' = Call("grant_entitlement", caller, <<account, level>>)
    /\ IF caller # registry_owner
         THEN /\ result' = "NotOwner"
              /\ UNCHANGED <<entitlements, events>>
         ELSE /\ LogHasRoom
              /\ entitlements' =
                    IF level_value(level) >= level_value(get_entitlement(account))
                      THEN MappingInsert(entitlements, account, level)
                      ELSE entitlements
              /\ events' = Append(events, [event |-> "EntitlementGranted",
                                           account |-> account, level |-> level])
              /\ result' = "Ok"
    /\ UNCHANGED <<sessions, registry_owner, storeVars, block_number>>

grant_entitlement(caller, account, level) ==
    /\ call' = Call("grant_entitlement", caller, <<account, level>>)
    /\ IF caller # registry_owner
         THEN /\ result' = "NotOwner"
              /\ UNCHANGED <<entitlements, events>>
         ELSE /\ LogHasRoom
              /\ entitlements' = MappingInsert(entitlements, account, level)
              /\ events' = Append(events, [event |-> "EntitlementGranted",
                                           account |-> account, level |-> level])
              /\ result' = "Ok"
    /\ UNCHANGED <<sessions, registry_owner, storeVars, block_number>>

revoke_entitlement(caller, account) ==
    /\ call' = Call("revoke_entitlement", caller, <<account>>)
    /\ IF caller # registry_owner
         THEN /\ result' = "NotOwner"
              /\ UNCHANGED <<entitlements, events>>
         ELSE /\ LogHasRoom
              /\ entitlements' = MappingRemove(entitlements, account)
              /\ events' = Append(events, [event |-> "EntitlementRevoked",
                                           account |-> account])
              /\ result' = "Ok"
    /\ UNCHANGED <<sessions, registry_owner, storeVars, block_number>>



\* create_session that stamps the grant with the number of the next block
create_session_StampsNextBlock(caller, session_id, eph_pub_key, scope_id, expires_at_block) ==
    /\ call' = Call("create_session", caller,
                    <<session_id, eph_pub_key, scope_id, expires_at_block>>)
    /\ IF caller # registry_owner
         THEN /\ result' = "NotOwner"
              /\ UNCHANGED <<sessions, events>>
         ELSE /\ LogHasRoom
              /\ sessions' = MappingInsert(sessions, session_id,
                                 SessionGrant(eph_pub_key, scope_id, expires_at_block,
                                              FALSE, block_number + 1))
              /\ events' = Append(events, [event |-> "SessionCreated",
                                           session_id |-> session_id,
                                           expires_at_block |-> expires_at_block])
              /\ result' = "Ok"
    /\ UNCHANGED <<entitlements, registry_owner, storeVars, block_number>>

\* create_session that keeps a grant already stored under the id
create_session_KeepsExisting(caller, session_id, eph_pub_key, scope_id, expires_at_block) ==
    /\ call' = Call("create_session", caller,
                    <<session_id, eph_pub_key, scope_id, expires_at_block>>)
    /\ IF caller # registry_owner
         THEN /\ result' = "NotOwner"
              /\ UNCHANGED <<sessions, events>>
         ELSE /\ LogHasRoom
              /\ sessions' =
                    IF session_id \in DOMAIN sessions
                      THEN sessions
                      ELSE MappingInsert(sessions, session_id,
                               SessionGrant(eph_pub_key, scope_id, expires_at_block,
                                            FALSE, block_number))
              /\ events' = Append(events, [event |-> "SessionCreated",
                                           session_id |-> session_id,
                                           expires_at_block |-> expires_at_block])
              /\ result' = "Ok"
    /\ UNCHANGED <<entitlements, registry_owner, storeVars, block_number>>

create_session(caller, session_id, eph_pub_key, scope_id, expires_at_block) ==
    /\ call' = Call("create_session", caller,
                    <<session_id, eph_pub_key, scope_id, expires_at_block>>)
    /\ IF caller # registry_owner
         THEN /\ result' = "NotOwner"
              /\ UNCHANGED <<sessions, events>>
         ELSE /\ LogHasRoom
              /\ sessions' = MappingInsert(sessions, session_id,
                                 SessionGrant(eph_pub_key, scope_id, expires_at_block,
                                              FALSE, block_number))
              /\ events' = Append(events, [event |-> "SessionCreated",
                                           session_id |-> session_id,
                                           expires_at_block |-> expires_at_block])
              /\ result' = "Ok"
    /\ UNCHANGED <<entitlements, registry_owner, storeVars, block_number>>




\* revoke_session that treats a grant whose expires_at_block has passed as absent
revoke_session_SkipsExpired(caller, session_id) ==
    /\ call' = Call("revoke_session", caller, <<session_id>>)
    /\ IF caller # registry_owner
         THEN /\ result' = "NotOwner"
              /\ UNCHANGED <<sessions, events>>
         ELSE LET found == MappingGet(sessions, session_id)
              IN  IF found # OptNone /\ found[1].expires_at_block >= block_number
                    THEN /\ LogHasRoom
                         /\ sessions' = MappingInsert(sessions, session_id,
                                            [found[1] EXCEPT !.is_revoked = TRUE])
                         /\ events' = Append(events, [event |-> "SessionRevoked",
                                                      session_id |-> session_id])
                         /\ result' = "Ok"
                    ELSE /\ result' = "SessionNotFound"
                         /\ UNCHANGED <<sessions, events>>
    /\ UNCHANGED <<entitlements, registry_owner, storeVars, block_number>>

\* revoke_session that looks for the grant before it checks the caller
revoke_session_ExistenceFirst(caller, session_id) ==
    /\ call' = Call("revoke_session", caller, <<session_id>>)
    /\ LET found == MappingGet(sessions, session_id)
       IN  IF found = OptNone
             THEN /\ result' = "SessionNotFound"
                  /\ UNCHANGED <<sessions, events>>
             ELSE IF caller # registry_owner
                    THEN /\ result' = "NotOwner"
                         /\ UNCHANGED <<sessions, events>>
                    ELSE /\ LogHasRoom
                         /\ sessions' = MappingInsert(sessions, session_id,
                                            [found[1] EXCEPT !.is_revoked = TRUE])
                         /\ events' = Append(events, [event |-> "SessionRevoked",
                                                      session_id |-> session_id])
                         /\ result' = "Ok"
    /\ UNCHANGED <<entitlements, registry_owner, storeVars, block_number>>

\* revoke_session that deletes the grant
revoke_session_Removes(caller, session_id) ==
    /\ call' = Call("revoke_session", caller, <<session_id>>)
    /\ IF caller # registry_owner
         THEN /\ result' = "NotOwner"
              /\ UNCHANGED <<sessions, events>>
         ELSE LET found == MappingGet(sessions, session_id)
              IN  IF found # OptNone
                    THEN /\ LogHasRoom
                         /\ sessions' = MappingRemove(sessions, session_id)
                         /\ events' = Append(events, [event |-> "SessionRevoked",
                                                      session_id |-> session_id])
                         /\ result' = "Ok"
                    ELSE /\ result' = "SessionNotFound"
                         /\ UNCHANGED <<sessions, events>>
    /\ UNCHANGED <<entitlements, registry_owner, storeVars, block_number>>

revoke_session(caller, session_id) ==
    /\ call' = Call("revoke_session", caller, <<session_id>>)
    /\ IF caller # registry_owner
         THEN /\ result' = "NotOwner"
              /\ UNCHANGED <<sessions, events>>
         ELSE LET found == MappingGet(sessions, session_id)
              IN  IF found # OptNone
                    THEN /\ LogHasRoom
                         /\ sessions' = MappingInsert(sessions, session_id,
                                            [found[1] EXCEPT !.is_revoked = TRUE])
                         /\ events' = Append(events, [event |-> "SessionRevoked",
                                                      session_id |-> session_id])
                         /\ result' = "Ok"
                    ELSE /\ result' = "SessionNotFound"
                         /\ UNCHANGED <<sessions, events>>
    /\ UNCHANGED <<entitlements, registry_owner, storeVars, block_number>>

(* ======================= AttributeStore ======================= *)

\* const MAX_STRING_LENGTH: usize = 256
MAX_STRING_LENGTH == 256

\* A String is a sequence of runs <<code point, count>>: count copies of one char.
Str(ch, n) == <<<<ch, n>>>>

\* bytes of one char in UTF-8
Utf8Len(ch) ==
    IF ch < 128 THEN 1 ELSE IF ch < 2048 THEN 2 ELSE IF ch < 65536 THEN 3 ELSE 4

RECURSIVE StrLen(_)
\* String::len(): the length in bytes of the UTF-8 encoding
StrLen(s) ==
    IF s = <<>> THEN 0 ELSE Utf8Len(Head(s)[1]) * Head(s)[2] + StrLen(Tail(s))

RECURSIVE CharCount(_)
\* s.chars().count(): the number of characters
CharCount(s) == IF s = <<>> THEN 0 ELSE Head(s)[2] + CharCount(Tail(s))

\* namespaces, keys and values: short ones, ASCII strings of 256 and 257 chars,
\* and 129 two-byte chars (233 is U+00E9): 129 characters in 258 bytes
ShortNs == Str(111, 3)

LongNs == Str(97, 257)

ShortKey == Str(114, 4)

OtherKey == Str(116, 4)

LongKey == Str(98, 257)

\* <<namespace, key, value>> of set_attribute
AttributeInput ==
    {<<ShortNs, ShortKey, Str(120, 1)>>, <<ShortNs, ShortKey, Str(99, 256)>>,
     <<ShortNs, OtherKey, Str(120, 1)>>,
     <<LongNs, ShortKey, Str(120, 1)>>, <<ShortNs, LongKey, Str(120, 1)>>,
     <<ShortNs, ShortKey, Str(99, 257)>>, <<ShortNs, ShortKey, Str(233, 129)>>}

\* <<namespace, key>> of remove_attribute
AttributeKey == {<<ShortNs, ShortKey>>, <<ShortNs, OtherKey>>}

\* roots are [u8; 32]
Root == {"rootAB", "rootCD"}

\* can_write that looks up (caller, account) instead of (account, caller)
can_write_SwappedKey(caller, account) ==
    IF caller = store_owner
      THEN TRUE
      ELSE IF caller = account
             THEN TRUE
             ELSE LET w == MappingGet(authorized_writers, <<caller, account>>)
                  IN  IF w = OptNone THEN FALSE ELSE w[1]

can_write(caller, account) ==
    IF caller = store_owner
      THEN TRUE
      ELSE IF caller = account
             THEN TRUE
             ELSE LET w == MappingGet(authorized_writers, <<account, caller>>)
                  IN  IF w = OptNone THEN FALSE ELSE w[1]


\* is_authorized_anchor that looks at authorized_anchors only
is_authorized_anchor_EntryOnly(anchor) ==
    LET a == MappingGet(authorized_anchors, anchor)
    IN  IF a = OptNone THEN FALSE ELSE a[1]

is_authorized_anchor(anchor) ==
    IF anchor = store_owner
      THEN TRUE
      ELSE LET a == MappingGet(authorized_anchors, anchor)
           IN  IF a = OptNone THEN FALSE ELSE a[1]


\* AttributeStore::owner()
attribute_store_owner == store_owner

get_attribute(account, namespace, key) ==
    MappingGet(attributes, <<account, namespace, key>>)

get_root(account) == MappingGet(roots, account)

\* set_attribute that checks the caller before the lengths
set_attribute_AuthFirst(caller, account, namespace, key, value) ==
    /\ call' = Call("set_attribute", caller, <<account, namespace, key, value>>)
    /\ IF ~can_write(caller, account)
         THEN /\ result' = "NotAuthorized"
              /\ UNCHANGED <<attributes, events>>
         ELSE IF \/ StrLen(namespace) > MAX_STRING_LENGTH
                 \/ StrLen(key) > MAX_STRING_LENGTH
                 \/ StrLen(value) > MAX_STRING_LENGTH
                THEN /\ result' = "InputTooLong"
                     /\ UNCHANGED <<attributes, events>>
                ELSE /\ LogHasRoom
                     /\ attributes' = MappingInsert(attributes,
                                          <<account, namespace, key>>, value)
                     /\ events' = Append(events, [event |-> "AttributeSet",
                                                  account |-> account,
                                                  namespace |-> namespace,
                                                  key |-> key, value |-> value])
                     /\ result' = "Ok"
    /\ UNCHANGED <<authorized_writers, store_owner, roots, authorized_anchors,
                   registryVars, block_number>>

\* set_attribute that checks the lengths of namespace and key only
set_attribute_NoValueCheck(caller, account, namespace, key, value) ==
    /\ call' = Call("set_attribute", caller, <<account, namespace, key, value>>)
    /\ IF \/ StrLen(namespace) > MAX_STRING_LENGTH
          \/ StrLen(key) > MAX_STRING_LENGTH
         THEN /\ result' = "InputTooLong"
              /\ UNCHANGED <<attributes, events>>
         ELSE IF ~can_write(caller, account)
                THEN /\ result' = "NotAuthorized"
                     /\ UNCHANGED <<attributes, events>>
                ELSE /\ LogHasRoom
                     /\ attributes' = MappingInsert(attributes,
                                          <<account, namespace, key>>, value)
                     /\ events' = Append(events, [event |-> "AttributeSet",
                                                  account |-> account,
                                                  namespace |-> namespace,
                                                  key |-> key, value |-> value])
                     /\ result' = "Ok"
    /\ UNCHANGED <<authorized_writers, store_owner, roots, authorized_anchors,
                   registryVars, block_number>>

set_attribute(caller, account, namespace, key, value) ==
    /\ call' = Call("set_attribute", caller, <<account, namespace, key, value>>)
    /\ IF \/ StrLen(namespace) > MAX_STRING_LENGTH
          \/ StrLen(key) > MAX_STRING_LENGTH
          \/ StrLen(value) > MAX_STRING_LENGTH
         THEN /\ result' = "InputTooLong"
              /\ UNCHANGED <<attributes, events>>
         ELSE IF ~can_write(caller, account)
                THEN /\ result' = "NotAuthorized"
                     /\ UNCHANGED <<attributes, events>>
                ELSE /\ LogHasRoom
                     /\ attributes' = MappingInsert(attributes,
                                          <<account, namespace, key>>, value)
                     /\ events' = Append(events, [event |-> "AttributeSet",
                                                  account |-> account,
                                                  namespace |-> namespace,
                                                  key |-> key, value |-> value])
                     /\ result' = "Ok"
    /\ UNCHANGED <<authorized_writers, store_owner, roots, authorized_anchors,
                   registryVars, block_number>>



\* remove_attribute that reports a missing record as an error
remove_attribute_FailsOnAbsent(caller, account, namespace, key) ==
    /\ call' = Call("remove_attribute", caller, <<account, namespace, key>>)
    /\ IF ~can_write(caller, account)
         THEN /\ result' = "NotAuthorized"
              /\ UNCHANGED <<attributes, events>>
         ELSE IF <<account, namespace, key>> \notin DOMAIN attributes
                THEN /\ result' = "AttributeNotFound"
                     /\ UNCHANGED <<attributes, events>>
                ELSE /\ LogHasRoom
                     /\ attributes' = MappingRemove(attributes,
                                          <<account, namespace, key>>)
                     /\ events' = Append(events, [event |-> "AttributeRemoved",
                                                  account |-> account,
                                                  namespace |-> namespace,
                                                  key |-> key])
                     /\ result' = "Ok"
    /\ UNCHANGED <<authorized_writers, store_owner, roots, authorized_anchors,
                   registryVars, block_number>>

\* remove_attribute that emits AttributeRemoved only when it removed a record
remove_attribute_SilentOnAbsent(caller, account, namespace, key) ==
    /\ call' = Call("remove_attribute", caller, <<account, namespace, key>>)
    /\ IF ~can_write(caller, account)
         THEN /\ result' = "NotAuthorized"
              /\ UNCHANGED <<attributes, events>>
         ELSE /\ LogHasRoom
              /\ attributes' = MappingRemove(attributes, <<account, namespace, key>>)
              /\ events' =
                    IF <<account, namespace, key>> \in DOMAIN attributes
                      THEN Append(events, [event |-> "AttributeRemoved",
                                           account |-> account,
                                           namespace |-> namespace, key |-> key])
                      ELSE events
              /\ result' = "Ok"
    /\ UNCHANGED <<authorized_writers, store_owner, roots, authorized_anchors,
                   registryVars, block_number>>

remove_attribute(caller, account, namespace, key) ==
    /\ call' = Call("remove_attribute", caller, <<account, namespace, key>>)
    /\ IF ~can_write(caller, account)
         THEN /\ result' = "NotAuthorized"
              /\ UNCHANGED <<attributes, events>>
         ELSE /\ LogHasRoom
              /\ attributes' = MappingRemove(attributes, <<account, namespace, key>>)
              /\ events' = Append(events, [event |-> "AttributeRemoved",
                                           account |-> account,
                                           namespace |-> namespace, key |-> key])
              /\ result' = "Ok"
    /\ UNCHANGED <<authorized_writers, store_owner, roots, authorized_anchors,
                   registryVars, block_number>>


\* authorize_writer that inserts (writer, caller) instead of (caller, writer)
authorize_writer_SwappedKey(caller, writer) ==
    /\ call' = Call("authorize_writer", caller, <<writer>>)
    /\ LogHasRoom
    /\ authorized_writers' = MappingInsert(authorized_writers, <<writer, caller>>, TRUE)
    /\ events' = Append(events, [event |-> "WriterAuthorized",
                                 account |-> caller, writer |-> writer])
    /\ result' = "Ok"
    /\ UNCHANGED <<attributes, store_owner, roots, authorized_anchors,
                   registryVars, block_number>>

\* returns (): result is "Ok"
authorize_writer(caller, writer) ==
    /\ call' = Call("authorize_writer", caller, <<writer>>)
    /\ LogHasRoom
    /\ authorized_writers' = MappingInsert(authorized_writers, <<caller, writer>>, TRUE)
    /\ events' = Append(events, [event |-> "WriterAuthorized",
                                 account |-> caller, writer |-> writer])
    /\ result' = "Ok"
    /\ UNCHANGED <<attributes, store_owner, roots, authorized_anchors,
                   registryVars, block_number>>

\* revoke_writer that removes (writer, caller) instead of (caller, writer)
revoke_writer_SwappedKey(caller, writer) ==
    /\ call' = Call("revoke_writer", caller, <<writer>>)
    /\ LogHasRoom
    /\ authorized_writers' = MappingRemove(authorized_writers, <<writer, caller>>)
    /\ events' = Append(events, [event |-> "WriterRevoked",
                                 account |-> caller, writer |-> writer])
    /\ result' = "Ok"
    /\ UNCHANGED <<attributes, store_owner, roots, authorized_anchors,
                   registryVars, block_number>>

\* returns (): result is "Ok"
revoke_writer(caller, writer) ==
    /\ call' = Call("revoke_writer", caller, <<writer>>)
    /\ LogHasRoom
    /\ authorized_writers' = MappingRemove(authorized_writers, <<caller, writer>>)
    /\ events' = Append(events, [event |-> "WriterRevoked",
                                 account |-> caller, writer |-> writer])
    /\ result' = "Ok"
    /\ UNCHANGED <<attributes, store_owner, roots, authorized_anchors,
                   registryVars, block_number>>


\* set_root that writes the root before it checks the caller
set_root_WritesBeforeCheck(caller, account, root) ==
    /\ call' = Call("set_root", caller, <<account, root>>)
    /\ roots' = MappingInsert(roots, account, root)
    /\ IF ~is_authorized_anchor(caller)
         THEN /\ result' = "NotAuthorizedAnchor"
              /\ UNCHANGED events
         ELSE /\ LogHasRoom
              /\ events' = Append(events, [event |-> "RootUpdated",
                                           account |-> account, root |-> root])
              /\ result' = "Ok"
    /\ UNCHANGED <<attributes, authorized_writers, store_owner, authorized_anchors,
                   registryVars, block_number>>

\* set_root without the anchor check
set_root_NoCheck(caller, account, root) ==
    /\ call' = Call("set_root", caller, <<account, root>>)
    /\ LogHasRoom
    /\ roots' = MappingInsert(roots, account, root)
    /\ events' = Append(events, [event |-> "RootUpdated",
                                 account |-> account, root |-> root])
    /\ result' = "Ok"
    /\ UNCHANGED <<attributes, authorized_writers, store_owner, authorized_anchors,
                   registryVars, block_number>>

set_root(caller, account, root) ==
    /\ call' = Call("set_root", caller, <<account, root>>)
    /\ IF ~is_authorized_anchor(caller)
         THEN /\ result' = "NotAuthorizedAnchor"
              /\ UNCHANGED <<roots, events>>
         ELSE /\ LogHasRoom
              /\ roots' = MappingInsert(roots, account, root)
              /\ events' = Append(events, [event |-> "RootUpdated",
                                           account |-> account, root |-> root])
              /\ result' = "Ok"
    /\ UNCHANGED <<attributes, authorized_writers, store_owner, authorized_anchors,
                   registryVars, block_number>>


\* add_anchor that hands the contract to the new anchor
add_anchor_TransfersOwner(caller, anchor) ==
    /\ call' = Call("add_anchor", caller, <<anchor>>)
    /\ IF caller # store_owner
         THEN /\ result' = "NotOwner"
              /\ UNCHANGED <<authorized_anchors, events, store_owner>>
         ELSE /\ LogHasRoom
              /\ authorized_anchors' = MappingInsert(authorized_anchors, anchor, TRUE)
              /\ store_owner' = anchor
              /\ events' = Append(events, [event |-> "AnchorAdded", anchor |-> anchor])
              /\ result' = "Ok"
    /\ UNCHANGED <<attributes, authorized_writers, roots, registryVars, block_number>>

add_anchor(caller, anchor) ==
    /\ call' = Call("add_anchor", caller, <<anchor>>)
    /\ IF caller # store_owner
         THEN /\ result' = "NotOwner"
              /\ UNCHANGED <<authorized_anchors, events>>
         ELSE /\ LogHasRoom
              /\ authorized_anchors' = MappingInsert(authorized_anchors, anchor, TRUE)
              /\ events' = Append(events, [event |-> "AnchorAdded", anchor |-> anchor])
              /\ result' = "Ok"
    /\ UNCHANGED <<attributes, authorized_writers, store_owner, roots,
                   registryVars, block_number>>


\* remove_anchor that deletes the removed anchor's root as well
remove_anchor_DropsRoot(caller, anchor) ==
    /\ call' = Call("remove_anchor", caller, <<anchor>>)
    /\ IF caller # store_owner
         THEN /\ result' = "NotOwner"
              /\ UNCHANGED <<authorized_anchors, roots, events>>
         ELSE /\ LogHasRoom
              /\ authorized_anchors' = MappingRemove(authorized_anchors, anchor)
              /\ roots' = MappingRemove(roots, anchor)
              /\ events' = Append(events, [event |-> "AnchorRemoved", anchor |-> anchor])
              /\ result' = "Ok"
    /\ UNCHANGED <<attributes, authorized_writers, store_owner, registryVars,
                   block_number>>

\* remove_anchor without the owner check
remove_anchor_NoOwnerCheck(caller, anchor) ==
    /\ call' = Call("remove_anchor", caller, <<anchor>>)
    /\ LogHasRoom
    /\ authorized_anchors' = MappingRemove(authorized_anchors, anchor)
    /\ events' = Append(events, [event |-> "AnchorRemoved", anchor |-> anchor])
    /\ result' = "Ok"
    /\ UNCHANGED <<attributes, authorized_writers, store_owner, roots,
                   registryVars, block_number>>

\* remove_anchor that removes the caller's entry instead of the anchor's
remove_anchor_RemovesCaller(caller, anchor) ==
    /\ call' = Call("remove_anchor", caller, <<anchor>>)
    /\ IF caller # store_owner
         THEN /\ result' = "NotOwner"
              /\ UNCHANGED <<authorized_anchors, events>>
         ELSE /\ LogHasRoom
              /\ authorized_anchors' = MappingRemove(authorized_anchors, caller)
              /\ events' = Append(events, [event |-> "AnchorRemoved", anchor |-> anchor])
              /\ result' = "Ok"
    /\ UNCHANGED <<attributes, authorized_writers, store_owner, roots,
                   registryVars, block_number>>

remove_anchor(caller, anchor) ==
    /\ call' = Call("remove_anchor", caller, <<anchor>>)
    /\ IF caller # store_owner
         THEN /\ result' = "NotOwner"
              /\ UNCHANGED <<authorized_anchors, events>>
         ELSE /\ LogHasRoom
              /\ authorized_anchors' = MappingRemove(authorized_anchors, anchor)
              /\ events' = Append(events, [event |-> "AnchorRemoved", anchor |-> anchor])
              /\ result' = "Ok"
    /\ UNCHANGED <<attributes, authorized_writers, store_owner, roots,
                   registryVars, block_number>>

(* ======================= the host ======================= *)

\* the ledger produces the next block
AdvanceBlock ==
    /\ block_number < MaxBlock
    /\ block_number' = block_number + 1
    /\ UNCHANGED <<registryVars, storeVars, events, call, result>>

(* ======================= specifications ======================= *)

\* AccessRegistry::new() and AttributeStore::new(), each called by a deployer
Init ==
    /\ \E d \in Deployer :
          /\ registry_owner = d
          /\ store_owner = d
          /\ call = Call("new", d, <<>>)
    /\ entitlements = EmptyMapping
    /\ sessions = EmptyMapping
    /\ attributes = EmptyMapping
    /\ authorized_writers = EmptyMapping
    /\ roots = EmptyMapping
    /\ authorized_anchors = EmptyMapping
    /\ events = <<>>
    /\ block_number = 0
    /\ result = "Ok"

NextEntitlement ==
    \/ \E caller \in Address, account \in Subject, level \in EntitlementLevel :
          grant_entitlement(caller, account, level)
    \/ \E caller \in Address, account \in Subject :
          revoke_entitlement(caller, account)

NextSession ==
    \/ \E caller \in Address, session_id \in SessionId, in \in SessionInput :
          create_session(caller, session_id, in[1], in[2], in[3])
    \/ \E caller \in Address, session_id \in SessionId :
          revoke_session(caller, session_id)
    \/ AdvanceBlock

NextAttribute ==
    \/ \E caller \in Address, account \in AttributeSubject, in \in AttributeInput :
          set_attribute(caller, account, in[1], in[2], in[3])
    \/ \E caller \in Address, account \in AttributeSubject, k \in AttributeKey :
          remove_attribute(caller, account, k[1], k[2])
    \/ \E caller \in AttributeSubject, writer \in Address :
          authorize_writer(caller, writer)
    \/ \E caller \in AttributeSubject, writer \in Address :
          revoke_writer(caller, writer)

NextAnchor ==
    \/ \E caller \in Address, account \in Subject, root \in Root :
          set_root(caller, account, root)
    \/ \E caller \in Address, anchor \in Address : add_anchor(caller, anchor)
    \/ \E caller \in Address, anchor \in Address : remove_anchor(caller, anchor)


\* the delegation of writers, with every principal as caller and as writer
NextWriter ==
    \/ \E caller \in Address, writer \in Address : authorize_writer(caller, writer)
    \/ \E caller \in Address, writer \in Address : revoke_writer(caller, writer)

\* Both contracts on one ledger: every operation, over fewer inputs than the
\* specifications of the parts take (the owner and one other caller; for the
\* attribute store also a third caller, who can be made a writer or an anchor),
\* and a log of at most MaxNodeEvents events.
TwoCallers == {"a1", "a2"}

NodeAttributeInput ==
    {<<ShortNs, ShortKey, Str(120, 1)>>, <<ShortNs, ShortKey, Str(99, 257)>>}

NodeLogBound == Len(events') <= MaxNodeEvents

Next ==
    \/ \E caller \in TwoCallers, account \in Subject :
          grant_entitlement(caller, account, "Premium") /\ NodeLogBound
    \/ \E caller \in TwoCallers, account \in Subject :
          revoke_entitlement(caller, account) /\ NodeLogBound
    \/ \E caller \in TwoCallers :
          create_session(caller, "sid1", <<2>>, "scopeA", 0) /\ NodeLogBound
    \/ \E caller \in TwoCallers :
          revoke_session(caller, "sid1") /\ NodeLogBound
    \/ AdvanceBlock
    \/ \E caller \in Address, in \in NodeAttributeInput :
          set_attribute(caller, "a2", in[1], in[2], in[3]) /\ NodeLogBound
    \/ \E caller \in Address :
          remove_attribute(caller, "a2", ShortNs, ShortKey) /\ NodeLogBound
    \/ \E caller \in TwoCallers : authorize_writer(caller, "a3") /\ NodeLogBound
    \/ \E caller \in TwoCallers : revoke_writer(caller, "a3") /\ NodeLogBound
    \/ \E caller \in Address :
          set_root(caller, "a2", "rootAB") /\ NodeLogBound
    \/ \E caller \in TwoCallers, anchor \in Subject :
          add_anchor(caller, anchor) /\ NodeLogBound
    \/ \E caller \in TwoCallers, anchor \in Subject :
          remove_anchor(caller, anchor) /\ NodeLogBound


\* Both contracts on one ledger with two keys for every mapping, one value for
\* every key and a log of at most MaxNodeEvents events.
NextFrame ==
    \/ \E caller \in TwoCallers, account \in Subject :
          grant_entitlement(caller, account, "Basic") /\ NodeLogBound
    \/ \E caller \in TwoCallers, account \in Subject :
          revoke_entitlement(caller, account) /\ NodeLogBound
    \/ \E caller \in TwoCallers, session_id \in SessionId :
          create_session(caller, session_id, <<3>>, "scopeB", 5) /\ NodeLogBound
    \/ \E caller \in TwoCallers, session_id \in SessionId :
          revoke_session(caller, session_id) /\ NodeLogBound
    \/ \E caller \in Address, k \in AttributeKey :
          set_attribute(caller, "a2", k[1], k[2], Str(120, 1)) /\ NodeLogBound
    \/ \E caller \in Address, k \in AttributeKey :
          remove_attribute(caller, "a2", k[1], k[2]) /\ NodeLogBound
    \/ \E caller \in TwoCallers : authorize_writer(caller, "a3") /\ NodeLogBound
    \/ \E caller \in TwoCallers : revoke_writer(caller, "a3") /\ NodeLogBound
    \/ \E caller \in Address, account \in Subject :
          set_root(caller, account, "rootCD") /\ NodeLogBound
    \/ \E caller \in TwoCallers, anchor \in Subject :
          add_anchor(caller, anchor) /\ NodeLogBound
    \/ \E caller \in TwoCallers, anchor \in Subject :
          remove_anchor(caller, anchor) /\ NodeLogBound

Spec == Init /\ [][Next]_vars


\* both contracts with two keys for every mapping
SpecFrame == Init /\ [][NextFrame]_vars

\* the entitlement part of AccessRegistry
SpecEntitlement == Init /\ [][NextEntitlement]_vars

\* the session part of AccessRegistry, under a host that produces blocks
SpecSession == Init /\ [][NextSession]_vars

\* attributes and writers of AttributeStore
SpecAttribute == Init /\ [][NextAttribute]_vars


\* the writers of AttributeStore, delegated by every principal
SpecWriter == Init /\ [][NextWriter]_vars

\* roots and anchors of AttributeStore
SpecAnchor == Init /\ [][NextAnchor]_vars

(* ======================= claims ======================= *)

\* the six mappings of the two contracts
mappings == <<entitlements, sessions, authorized_anchors, roots, attributes,
              authorized_writers>>

RegistryOwnerOps ==
    {"grant_entitlement", "revoke_entitlement", "create_session", "revoke_session"}

StoreOwnerOps == {"add_anchor", "remove_anchor"}

\* the indices of the events of the log that satisfy P
EventIndices(log, P(_)) == {i \in 1..Len(log) : P(log[i])}

Max(S) == CHOOSE x \in S : \A y \in S : y <= x

\* C1: a caller that is not the owner gets NotOwner from grant_entitlement,
\* revoke_entitlement, create_session, revoke_session, add_anchor and
\* remove_anchor, and the call leaves the six mappings, both owner fields and
\* the event log as they were.
C1_NonOwnerRejected ==
    [][(\/ call'.op \in RegistryOwnerOps /\ call'.caller # registry_owner
        \/ call'.op \in StoreOwnerOps /\ call'.caller # store_owner)
       => /\ result' = "NotOwner"
          /\ UNCHANGED <<mappings, registry_owner, store_owner, events>>]_vars

\* a non-owner was refused remove_anchor of an address that is an anchor, on a
\* ledger where the registry holds an entitlement too
C1_Witness ==
    /\ call.op = "remove_anchor"
    /\ call.caller # store_owner
    /\ result = "NotOwner"
    /\ call.args[1] \in DOMAIN authorized_anchors
    /\ entitlements # EmptyMapping

\* authorized_writers[(s, c)] is true
WriterEntry(s, c) ==
    /\ <<s, c>> \in DOMAIN authorized_writers
    /\ authorized_writers[<<s, c>>] = TRUE

\* the predicate of the specification: owner, or the subject, or a delegated writer
MayWrite(c, s) == c = store_owner \/ c = s \/ WriterEntry(s, c)

\* the three strings pass the length check of set_attribute
WithinLengthBound(namespace, key, value) ==
    /\ StrLen(namespace) <= MAX_STRING_LENGTH
    /\ StrLen(key) <= MAX_STRING_LENGTH
    /\ StrLen(value) <= MAX_STRING_LENGTH

\* C2: set_attribute (strings within the length bound) and remove_attribute on
\* subject s by caller c return Ok exactly when c is the owner, or c = s, or
\* authorized_writers[(s, c)] is true; otherwise they return NotAuthorized and
\* change neither attributes nor the event log; can_write(c, s) is that predicate.
C2_WriteAuthorization ==
    [][/\ \A c \in Address, s \in Address : can_write(c, s) = MayWrite(c, s)
       /\ (\/ /\ call'.op = "set_attribute"
              /\ WithinLengthBound(call'.args[2], call'.args[3], call'.args[4])
           \/ call'.op = "remove_attribute")
          => LET c == call'.caller
                 s == call'.args[1]
             IN  /\ (result' = "Ok") <=> MayWrite(c, s)
                 /\ ~MayWrite(c, s)
                      => /\ result' = "NotAuthorized"
                         /\ UNCHANGED <<attributes, events>>]_vars

\* a delegated writer, neither owner nor subject, has set an attribute
C2_Witness ==
    /\ call.op = "set_attribute"
    /\ result = "Ok"
    /\ call.caller # store_owner
    /\ call.caller # call.args[1]
    /\ WriterEntry(call.args[1], call.caller)
    /\ get_attribute(call.args[1], call.args[2], call.args[3]) = Some(call.args[4])

\* authorized_anchors[c] is true
AnchorEntry(c) ==
    /\ c \in DOMAIN authorized_anchors
    /\ authorized_anchors[c] = TRUE

\* the log holds a RootUpdated event for subject s
RootWasSet(s) ==
    \E i \in 1..Len(events) : events[i].event = "RootUpdated" /\ events[i].account = s

\* C3: set_root(subject, root) by caller c returns Ok, and get_root(subject) is
\* then root, exactly when c is the owner or authorized_anchors[c] is true; any
\* other caller gets NotAuthorizedAnchor and roots and the event log stay as they
\* were. get_root of a subject whose root was never set returns nothing.
C3_RootAuthorization ==
    [][/\ \A s \in Address : ~RootWasSet(s) => get_root(s) = OptNone
       /\ call'.op = "set_root"
          => LET c == call'.caller
                 permitted == c = store_owner \/ AnchorEntry(c)
             IN  /\ (result' = "Ok") <=> permitted
                 /\ permitted => MappingGet(roots', call'.args[1]) = Some(call'.args[2])
                 /\ ~permitted
                      => /\ result' = "NotAuthorizedAnchor"
                         /\ UNCHANGED <<roots, events>>]_vars

\* an anchor that is not the owner has set a root, and another subject has none
C3_Witness ==
    /\ call.op = "set_root"
    /\ result = "Ok"
    /\ call.caller # store_owner
    /\ AnchorEntry(call.caller)
    /\ get_root(call.args[1]) = Some(call.args[2])
    /\ \E s \in Subject : get_root(s) = OptNone

\* C4: for every session id, is_revoked never goes from true back to false.
C4_RevokedIsMonotonic ==
    [][\A id \in SessionId :
          (id \in DOMAIN sessions /\ sessions[id].is_revoked)
          => (id \in DOMAIN sessions' /\ sessions'[id].is_revoked)]_vars

\* a string of more than 256 characters; it has more than 256 bytes as well
TooLong(str) == CharCount(str) > MAX_STRING_LENGTH \/ StrLen(str) > MAX_STRING_LENGTH

\* C5: set_attribute with a namespace, key or value longer than 256 returns
\* InputTooLong for every caller, permitted to write or not, and leaves
\* get_attribute of that key and the event log as they were.
C5_OversizedInputRejected ==
    [][(/\ call'.op = "set_attribute"
        /\ \/ TooLong(call'.args[2])
           \/ TooLong(call'.args[3])
           \/ TooLong(call'.args[4]))
       => /\ result' = "InputTooLong"
          /\ MappingGet(attributes', <<call'.args[1], call'.args[2], call'.args[3]>>)
               = get_attribute(call'.args[1], call'.args[2], call'.args[3])
          /\ UNCHANGED events]_vars

\* a caller who may not write to the subject sent an oversized value for a key
\* that holds a value, and got InputTooLong
C5_Witness ==
    /\ call.op = "set_attribute"
    /\ ~MayWrite(call.caller, call.args[1])
    /\ CharCount(call.args[4]) > MAX_STRING_LENGTH
    /\ result = "InputTooLong"
    /\ get_attribute(call.args[1], call.args[2], call.args[3]) # OptNone

\* C6: every record of attributes has a namespace, a key and a value of at most
\* 256 characters each.
C6_StoredStringsBounded ==
    \A k \in DOMAIN attributes :
        /\ CharCount(k[2]) <= MAX_STRING_LENGTH
        /\ CharCount(k[3]) <= MAX_STRING_LENGTH
        /\ CharCount(attributes[k]) <= MAX_STRING_LENGTH

\* a value of exactly 256 characters is stored
C6_Witness ==
    \E k \in DOMAIN attributes : CharCount(attributes[k]) = MAX_STRING_LENGTH

\* the log holds s's authorization of writer w
WasAuthorized(s, w) ==
    \E i \in 1..Len(events) :
        events[i] = [event |-> "WriterAuthorized", account |-> s, writer |-> w]

\* C7 as stated: after authorize_writer(w) by s, can_write(w, s) is true; after a
\* subsequent revoke_writer(w) by s, can_write(w, s) is false, for all principals
\* s and w.
C7_Original ==
    [][\A s \in Address, w \in Address :
          (call'.caller = s /\ call'.args = <<w>>)
          => /\ call'.op = "authorize_writer" => can_write(w, s)'
             /\ (call'.op = "revoke_writer" /\ WasAuthorized(s, w))
                => ~can_write(w, s)']_vars

\* C7, amended: after authorize_writer(w) by s, can_write(w, s) is true; after a
\* subsequent revoke_writer(w) by s, can_write(w, s) is false unless w is the
\* owner or w is s itself, who can write to s without an entry.
C7_WriterDelegation ==
    [][\A s \in Address, w \in Address :
          (call'.caller = s /\ call'.args = <<w>>)
          => /\ call'.op = "authorize_writer" => can_write(w, s)'
             /\ (call'.op = "revoke_writer" /\ WasAuthorized(s, w))
                => (can_write(w, s)' <=> w \in {store_owner, s})]_vars

\* s authorized w, neither the owner nor s, and then revoked w, who cannot write
C7_Witness ==
    /\ call.op = "revoke_writer"
    /\ call.args[1] \notin {store_owner, call.caller}
    /\ \E i \in 1..Len(events) - 1 :
          /\ events[i] = [event |-> "WriterAuthorized", account |-> call.caller,
                          writer |-> call.args[1]]
          /\ events[i + 1] = [event |-> "WriterRevoked", account |-> call.caller,
                              writer |-> call.args[1]]
    /\ ~can_write(call.args[1], call.caller)

\* the indices of the AnchorAdded and AnchorRemoved events about address a
AnchorEvents(a) ==
    EventIndices(events,
        LAMBDA e : e.event \in {"AnchorAdded", "AnchorRemoved"} /\ e.anchor = a)

\* a was added by add_anchor and not removed since
AnchorAddedLast(a) ==
    AnchorEvents(a) # {} /\ events[Max(AnchorEvents(a))].event = "AnchorAdded"

\* a was added by add_anchor and removed by a later remove_anchor, and not
\* added again since
AnchorRemovedLast(a) ==
    /\ AnchorEvents(a) # {}
    /\ events[Max(AnchorEvents(a))].event = "AnchorRemoved"
    /\ \E i \in AnchorEvents(a) : events[i].event = "AnchorAdded"

\* a is an authorized anchor and a set_root by a returns Ok
AnchorStanding(a) ==
    /\ is_authorized_anchor(a)
    /\ (call'.op = "set_root" /\ call'.caller = a) => result' = "Ok"

\* a is no authorized anchor and a set_root by a returns NotAuthorizedAnchor
NoAnchorStanding(a) ==
    /\ ~is_authorized_anchor(a)
    /\ (call'.op = "set_root" /\ call'.caller = a) => result' = "NotAuthorizedAnchor"

\* C8 as stated, for every address a: after add_anchor(a) by the owner a is an
\* authorized anchor and its set_root succeeds; after a subsequent
\* remove_anchor(a) a is no authorized anchor and its set_root fails.
C8_Original ==
    [][\A a \in Address :
          /\ AnchorAddedLast(a) => AnchorStanding(a)
          /\ AnchorRemovedLast(a) => NoAnchorStanding(a)]_vars

\* C8, amended: as stated for every address a other than the owner; the owner
\* is an authorized anchor after remove_anchor(owner) too, and its set_root
\* succeeds.
C8_AnchorLifecycle ==
    [][\A a \in Address :
          /\ AnchorAddedLast(a) => AnchorStanding(a)
          /\ (AnchorRemovedLast(a) /\ a # store_owner) => NoAnchorStanding(a)
          /\ (AnchorRemovedLast(a) /\ a = store_owner) => AnchorStanding(a)]_vars

\* a was added, set a root, was removed, and its next set_root was refused
C8_Witness ==
    /\ call.op = "set_root"
    /\ call.caller # store_owner
    /\ result = "NotAuthorizedAnchor"
    /\ AnchorRemovedLast(call.caller)
    /\ \E i \in 1..Len(events), j \in 1..Len(events) :
          /\ i < j
          /\ events[i] = [event |-> "AnchorAdded", anchor |-> call.caller]
          /\ events[j].event = "RootUpdated"
    /\ ~is_authorized_anchor(call.caller)

\* the ordinals of the specification: None=0 < Basic=1 < Premium=2 < Vip=3
Ordinal == [None |-> 0, Basic |-> 1, Premium |-> 2, Vip |-> 3]

\* C9: has_entitlement(p, required) is ordinal(get_entitlement(p)) >=
\* ordinal(required); get_entitlement(p) is None for p without a record; so p
\* without a record has at least None but not Basic, and a Premium p has at
\* least Basic and Premium but not Vip.
C9_HasEntitlementIsOrdinal ==
    \A p \in Address :
        /\ \A required \in EntitlementLevel :
              has_entitlement(p, required)
                <=> Ordinal[get_entitlement(p)] >= Ordinal[required]
        /\ p \notin DOMAIN entitlements
           => /\ get_entitlement(p) = "None"
              /\ has_entitlement(p, "None")
              /\ ~has_entitlement(p, "Basic")
        /\ get_entitlement(p) = "Premium"
           => /\ has_entitlement(p, "Basic")
              /\ has_entitlement(p, "Premium")
              /\ ~has_entitlement(p, "Vip")

\* one principal holds Premium, another was granted a level and lost it again
C9_Witness ==
    \E p \in Address, q \in Address :
        /\ MappingGet(entitlements, p) = Some("Premium")
        /\ q \notin DOMAIN entitlements
        /\ \E i \in 1..Len(events) :
              events[i].event = "EntitlementGranted" /\ events[i].account = q

\* the indices of the EntitlementGranted and EntitlementRevoked events about p
EntitlementEvents(p) ==
    EventIndices(events,
        LAMBDA e : e.event \in {"EntitlementGranted", "EntitlementRevoked"}
                   /\ e.account = p)

\* the level of the most recent grant to p if no revoke of p came after it
GrantedLevel(p) ==
    IF EntitlementEvents(p) = {}
      THEN "None"
      ELSE LET last == events[Max(EntitlementEvents(p))]
           IN  IF last.event = "EntitlementGranted" THEN last.level ELSE "None"

\* C10: after any sequence of calls, get_entitlement(p) is the level of the most
\* recent successful grant_entitlement(p, level) if no successful
\* revoke_entitlement(p) came after it, and None otherwise, whatever was granted
\* to or revoked from other principals; right after grant(p, l) it is l, right
\* after revoke(p) it is None, and a Vip p has every level.
C10_LatestGrantWins ==
    /\ \A p \in Address :
          /\ get_entitlement(p) = GrantedLevel(p)
          /\ GrantedLevel(p) = "Vip"
             => \A l \in EntitlementLevel : has_entitlement(p, l)
    /\ (call.op = "grant_entitlement" /\ result = "Ok")
       => get_entitlement(call.args[1]) = call.args[2]
    /\ (call.op = "revoke_entitlement" /\ result = "Ok")
       => get_entitlement(call.args[1]) = "None"

\* p was granted a level and then revoked, and reads None, while q keeps its Vip
C10_Witness ==
    /\ call.op = "revoke_entitlement"
    /\ result = "Ok"
    /\ \E i \in 1..Len(events) :
          events[i].event = "EntitlementGranted" /\ events[i].account = call.args[1]
    /\ get_entitlement(call.args[1]) = "None"
    /\ \E q \in Address : q # call.args[1] /\ get_entitlement(q) = "Vip"

\* the step executes a message: the host keeps the block number during a call,
\* and the production of a block is the only step that changes it
IsCallStep == block_number' = block_number

\* the log holds a SessionCreated event for id
SessionWasCreated(id) ==
    \E i \in 1..Len(events) :
        events[i].event = "SessionCreated" /\ events[i].session_id = id

\* C11: create_session(id, key, scope, expiry) by the owner returns Ok whether
\* or not a grant is stored under id; get_session(id) is then the grant with
\* these three arguments, is_revoked false and created_at_block the current
\* block number; the grants under the other ids are unchanged. get_session of
\* an id that was never created returns nothing.
C11_CreateSessionStoresGrant ==
    [][/\ \A id \in SessionId : ~SessionWasCreated(id) => get_session(id) = OptNone
       /\ (/\ IsCallStep
           /\ call'.op = "create_session"
           /\ call'.caller = registry_owner)
          => /\ result' = "Ok"
             /\ MappingGet(sessions', call'.args[1])
                  = Some([eph_pub_key |-> call'.args[2],
                          scope_id |-> call'.args[3],
                          expires_at_block |-> call'.args[4],
                          is_revoked |-> FALSE,
                          created_at_block |-> block_number])
             /\ \A id \in SessionId \ {call'.args[1]} :
                   MappingGet(sessions', id) = get_session(id)]_vars

\* the owner created a session in a later block under an id that held a grant
\* with another key and expiry, while the other id holds a grant and keeps it
C11_Witness ==
    /\ call.op = "create_session"
    /\ result = "Ok"
    /\ block_number > 0
    /\ get_session(call.args[1])
         = Some(SessionGrant(call.args[2], call.args[3], call.args[4], FALSE,
                             block_number))
    /\ \E i \in 1..Len(events) - 1 :
          /\ events[i].event = "SessionCreated"
          /\ events[i].session_id = call.args[1]
          /\ events[i].expires_at_block # call.args[4]
    /\ \E id \in SessionId \ {call.args[1]} : get_session(id) # OptNone

\* C12: revoke_session(id) by the owner on a stored grant returns Ok, sets
\* is_revoked and leaves eph_pub_key, scope_id, expires_at_block and
\* created_at_block of the grant as they were; get_session(id) still returns
\* the grant; on a grant that is revoked already it returns Ok too and leaves
\* the grant identical.
C12_RevokeSessionKeepsGrant ==
    [][(/\ IsCallStep
        /\ call'.op = "revoke_session"
        /\ call'.caller = registry_owner
        /\ call'.args[1] \in DOMAIN sessions)
       => LET id == call'.args[1]
          IN  /\ result' = "Ok"
              /\ MappingGet(sessions', id) # OptNone
              /\ sessions'[id].is_revoked = TRUE
              /\ sessions'[id].eph_pub_key = sessions[id].eph_pub_key
              /\ sessions'[id].scope_id = sessions[id].scope_id
              /\ sessions'[id].expires_at_block = sessions[id].expires_at_block
              /\ sessions'[id].created_at_block = sessions[id].created_at_block
              /\ sessions[id].is_revoked => sessions'[id] = sessions[id]]_vars

\* the owner revoked a session twice in a row; get_session returns the grant,
\* revoked, with the block number of its creation
C12_Witness ==
    /\ call.op = "revoke_session"
    /\ result = "Ok"
    /\ Len(events) >= 3
    /\ events[Len(events)] = [event |-> "SessionRevoked", session_id |-> call.args[1]]
    /\ events[Len(events) - 1] = events[Len(events)]
    /\ get_session(call.args[1]) # OptNone
    /\ get_session(call.args[1])[1].is_revoked
    /\ get_session(call.args[1])[1].created_at_block = 1

\* the messages that write to storage
MutatingOps ==
    {"grant_entitlement", "revoke_entitlement", "create_session", "revoke_session",
     "set_attribute", "remove_attribute", "authorize_writer", "revoke_writer",
     "set_root", "add_anchor", "remove_anchor"}

\* the event of the kind of message c, with its fields taken from c's arguments
\* (and from c's caller, the account of WriterAuthorized and WriterRevoked)
EventOf(c) ==
    CASE c.op = "grant_entitlement" ->
           [event |-> "EntitlementGranted", account |-> c.args[1], level |-> c.args[2]]
      [] c.op = "revoke_entitlement" ->
           [event |-> "EntitlementRevoked", account |-> c.args[1]]
      [] c.op = "create_session" ->
           [event |-> "SessionCreated", session_id |-> c.args[1],
            expires_at_block |-> c.args[4]]
      [] c.op = "revoke_session" ->
           [event |-> "SessionRevoked", session_id |-> c.args[1]]
      [] c.op = "set_attribute" ->
           [event |-> "AttributeSet", account |-> c.args[1], namespace |-> c.args[2],
            key |-> c.args[3], value |-> c.args[4]]
      [] c.op = "remove_attribute" ->
           [event |-> "AttributeRemoved", account |-> c.args[1],
            namespace |-> c.args[2], key |-> c.args[3]]
      [] c.op = "authorize_writer" ->
           [event |-> "WriterAuthorized", account |-> c.caller, writer |-> c.args[1]]
      [] c.op = "revoke_writer" ->
           [event |-> "WriterRevoked", account |-> c.caller, writer |-> c.args[1]]
      [] c.op = "set_root" ->
           [event |-> "RootUpdated", account |-> c.args[1], root |-> c.args[2]]
      [] c.op = "add_anchor" -> [event |-> "AnchorAdded", anchor |-> c.args[1]]
      [] c.op = "remove_anchor" -> [event |-> "AnchorRemoved", anchor |-> c.args[1]]

\* C13: a call of one of the eleven mutating messages that returns Ok appends
\* to the event log exactly one event, of the kind of the message and with the
\* message's arguments in its fields; a call that returns an error, and the
\* production of a block, leave the log as it was; so the log is the sequence
\* of the successful mutating calls in the order of their execution.
C13_OneEventPerSuccessfulCall ==
    [][IF IsCallStep /\ result' = "Ok"
         THEN /\ call'.op \in MutatingOps
              /\ events' = Append(events, EventOf(call'))
         ELSE events' = events]_vars

\* a call was refused after two successful calls, one to each contract; the
\* log holds the events of these two, in their order
C13_Witness ==
    /\ result # "Ok"
    /\ call.op \in MutatingOps
    /\ Len(events) = 2
    /\ events[1].event = "SessionCreated"
    /\ events[2].event = "WriterAuthorized"

\* C14: owner() of each contract is the caller of its constructor, and no step
\* changes it.
C14_OwnerIsFixed ==
    /\ call.op = "new"
    /\ access_registry_owner = call.caller
    /\ attribute_store_owner = call.caller
    /\ [][/\ access_registry_owner' = access_registry_owner
          /\ attribute_store_owner' = attribute_store_owner]_vars

\* after owner-only calls that succeeded and a successful call by another
\* principal, who is a writer's subject and an anchor, the deployer is the owner
C14_Witness ==
    /\ access_registry_owner \in Deployer
    /\ attribute_store_owner \in Deployer
    /\ call.op = "authorize_writer"
    /\ call.caller \notin Deployer
    /\ result = "Ok"
    /\ call.caller \in DOMAIN authorized_anchors

\* C15: in every state is_authorized_anchor(owner) is true and a set_root by
\* the owner returns Ok and stores the root, with or without an entry of the
\* owner in authorized_anchors: in the initial state, where nobody was added,
\* and after remove_anchor(owner) as well.
C15_OwnerIsAlwaysAnchor ==
    [][/\ is_authorized_anchor(attribute_store_owner)
       /\ (call'.op = "set_root" /\ call'.caller = attribute_store_owner)
          => /\ result' = "Ok"
             /\ MappingGet(roots', call'.args[1]) = Some(call'.args[2])]_vars

\* the owner was added as an anchor and removed again, has no entry, and has
\* set a root
C15_Witness ==
    /\ call.op = "set_root"
    /\ call.caller = attribute_store_owner
    /\ result = "Ok"
    /\ AnchorRemovedLast(attribute_store_owner)
    /\ attribute_store_owner \notin DOMAIN authorized_anchors
    /\ is_authorized_anchor(attribute_store_owner)
    /\ get_root(call.args[1]) = Some(call.args[2])

\* C16: remove_attribute(s, ns, k) by a caller who can write to s returns Ok
\* whether or not a record is stored under (s, ns, k); get_attribute(s, ns, k)
\* then returns nothing and every other record is as it was; with no record
\* under the key, attributes is unchanged.
C16_RemoveAttributeIsTotal ==
    [][(/\ call'.op = "remove_attribute"
        /\ can_write(call'.caller, call'.args[1]))
       => LET k == <<call'.args[1], call'.args[2], call'.args[3]>>
          IN  /\ result' = "Ok"
              /\ MappingGet(attributes', k) = OptNone
              /\ \A j \in (DOMAIN attributes \cup DOMAIN attributes') \ {k} :
                    MappingGet(attributes', j) = MappingGet(attributes, j)
              /\ k \notin DOMAIN attributes => attributes' = attributes]_vars

\* a key that was never set was removed with success, by a delegated writer,
\* while the subject's other key holds its value
C16_Witness ==
    /\ call.op = "remove_attribute"
    /\ result = "Ok"
    /\ call.caller \notin {store_owner, call.args[1]}
    /\ \A i \in 1..Len(events) :
          events[i].event = "AttributeSet" => events[i].key # call.args[3]
    /\ get_attribute(call.args[1], call.args[2], call.args[3]) = OptNone
    /\ attributes # EmptyMapping

\* C17: for every session id, once get_session(id) returns a grant, every later
\* get_session(id) returns a grant with the same created_at_block.
C17_CreatedAtBlockIsFixed ==
    [][\A id \in SessionId :
          get_session(id) # OptNone
          => /\ MappingGet(sessions', id) # OptNone
             /\ sessions'[id].created_at_block = sessions[id].created_at_block]_vars

\* C18: revoke_session by the owner on an id without a grant returns
\* SessionNotFound, stores no grant and appends no event; revoke_session by
\* anyone else returns NotOwner, with or without a grant under the id.
C18_RevokeSessionErrors ==
    [][(IsCallStep /\ call'.op = "revoke_session")
       => /\ call'.caller # access_registry_owner
             => /\ result' = "NotOwner"
                /\ UNCHANGED <<sessions, events>>
          /\ (/\ call'.caller = access_registry_owner
              /\ get_session(call'.args[1]) = OptNone)
             => /\ result' = "SessionNotFound"
                /\ MappingGet(sessions', call'.args[1]) = OptNone
                /\ UNCHANGED <<sessions, events>>]_vars

\* a caller who is not the owner revoked an id that has no grant, and got
\* NotOwner, not SessionNotFound; the other id has a grant
C18_Witness ==
    /\ call.op = "revoke_session"
    /\ call.caller # access_registry_owner
    /\ get_session(call.args[1]) = OptNone
    /\ result = "NotOwner"
    /\ sessions # EmptyMapping

\* C19: no outcome depends on how expires_at_block compares with the block
\* number. create_session by the owner returns Ok and stores every
\* expires_at_block, those below the block number too; get_session returns
\* every stored grant; what revoke_session returns is decided by the caller and
\* by the presence of a grant alone; and the production of a block changes no
\* grant.
C19_ExpiryIsNeverChecked ==
    [][/\ \A id \in DOMAIN sessions : get_session(id) = Some(sessions[id])
       /\ (/\ IsCallStep
           /\ call'.op = "create_session"
           /\ call'.caller = access_registry_owner)
          => /\ result' = "Ok"
             /\ sessions'[call'.args[1]].expires_at_block = call'.args[4]
       /\ (IsCallStep /\ call'.op = "revoke_session")
          => result' = IF call'.caller # access_registry_owner
                         THEN "NotOwner"
                         ELSE IF get_session(call'.args[1]) = OptNone
                                THEN "SessionNotFound"
                                ELSE "Ok"
       /\ ~IsCallStep => UNCHANGED sessions]_vars

\* a grant created with an expires_at_block below the block number of its
\* creation was revoked with success
C19_Witness ==
    /\ call.op = "revoke_session"
    /\ result = "Ok"
    /\ get_session(call.args[1]) # OptNone
    /\ sessions[call.args[1]].expires_at_block < sessions[call.args[1]].created_at_block
    /\ sessions[call.args[1]].expires_at_block < block_number
    /\ sessions[call.args[1]].is_revoked

\* C20: authorize_writer(w) and revoke_writer(w) called by c change no entry
\* of authorized_writers but (c, w), and nothing else in storage; for every
\* subject s other than c and every principal x, can_write(x, s) is the same
\* before and after the call. So the owner, and a writer delegated by s, cannot
\* add or remove a writer for s.
C20_WriterCallsTouchOwnEntry ==
    [][(IsCallStep /\ call'.op \in {"authorize_writer", "revoke_writer"})
       => LET c == call'.caller
              w == call'.args[1]
          IN  /\ \A k \in (DOMAIN authorized_writers \cup DOMAIN authorized_writers')
                            \ {<<c, w>>} :
                    MappingGet(authorized_writers', k) = MappingGet(authorized_writers, k)
              /\ \A s \in Address \ {c}, x \in Address :
                    can_write(x, s)' = can_write(x, s)
              /\ UNCHANGED <<attributes, roots, authorized_anchors, store_owner,
                             registryVars>>]_vars

\* the owner called revoke_writer(w) while a subject s has delegated w, neither
\* the owner nor s; w is s's writer as before, and w, a writer of s, has called
\* authorize_writer too
C20_Witness ==
    /\ call.op = "revoke_writer"
    /\ call.caller = attribute_store_owner
    /\ \E s \in Address \ {attribute_store_owner} :
          /\ call.args[1] \notin {attribute_store_owner, s}
          /\ WriterEntry(s, call.args[1])
          /\ can_write(call.args[1], s)
          /\ \E i \in 1..Len(events) :
                /\ events[i].event = "WriterAuthorized"
                /\ events[i].account = call.args[1]
                /\ WasAuthorized(s, call.args[1])

\* the records of mapping m and of its next value mNew agree on every key but k
OnlyKeyChanged(m, mNew, k) ==
    \A j \in (DOMAIN m \cup DOMAIN mNew) \ {k} : MappingGet(mNew, j) = MappingGet(m, j)

\* C21: a call that returns Ok changes at most the record under its own key in
\* its own mapping (grant/revoke_entitlement: entitlements[account];
\* create/revoke_session: sessions[id]; set/remove_attribute:
\* attributes[(subject, ns, key)]; authorize/revoke_writer:
\* authorized_writers[(caller, writer)]; set_root: roots[subject];
\* add/remove_anchor: authorized_anchors[anchor]); the other keys of that
\* mapping and the other five mappings are unchanged; a call that returns an
\* error changes no mapping.
C21_OneRecordPerCall ==
    [][IsCallStep
       => /\ result' # "Ok" => UNCHANGED mappings
          /\ (result' = "Ok" /\ call'.op \in {"grant_entitlement", "revoke_entitlement"})
             => /\ OnlyKeyChanged(entitlements, entitlements', call'.args[1])
                /\ UNCHANGED <<sessions, attributes, authorized_writers, roots,
                               authorized_anchors>>
          /\ (result' = "Ok" /\ call'.op \in {"create_session", "revoke_session"})
             => /\ OnlyKeyChanged(sessions, sessions', call'.args[1])
                /\ UNCHANGED <<entitlements, attributes, authorized_writers, roots,
                               authorized_anchors>>
          /\ (result' = "Ok" /\ call'.op \in {"set_attribute", "remove_attribute"})
             => /\ OnlyKeyChanged(attributes, attributes',
                                  <<call'.args[1], call'.args[2], call'.args[3]>>)
                /\ UNCHANGED <<entitlements, sessions, authorized_writers, roots,
                               authorized_anchors>>
          /\ (result' = "Ok" /\ call'.op \in {"authorize_writer", "revoke_writer"})
             => /\ OnlyKeyChanged(authorized_writers, authorized_writers',
                                  <<call'.caller, call'.args[1]>>)
                /\ UNCHANGED <<entitlements, sessions, attributes, roots,
                               authorized_anchors>>
          /\ (result' = "Ok" /\ call'.op = "set_root")
             => /\ OnlyKeyChanged(roots, roots', call'.args[1])
                /\ UNCHANGED <<entitlements, sessions, attributes, authorized_writers,
                               authorized_anchors>>
          /\ (result' = "Ok" /\ call'.op \in {"add_anchor", "remove_anchor"})
             => /\ OnlyKeyChanged(authorized_anchors, authorized_anchors',
                                  call'.args[1])
                /\ UNCHANGED <<entitlements, sessions, attributes, authorized_writers,
                               roots>>]_vars

\* an attribute was set with success while the subject's other key holds the
\* value set before
C21_Witness ==
    /\ call.op = "set_attribute"
    /\ result = "Ok"
    /\ get_attribute(call.args[1], call.args[2], call.args[3]) = Some(call.args[4])
    /\ \E i \in 1..Len(events) :
          /\ events[i].event = "AttributeSet"
          /\ events[i].key # call.args[3]
          /\ get_attribute(events[i].account, events[i].namespace, events[i].key)
               = Some(events[i].value)
    /\ Len(events) = 2

\* C22: set_attribute returns InputTooLong exactly when the namespace, the key
\* or the value has more than 256 characters; a call by a caller who can write
\* to the subject, with at most 256 characters in each of the three strings,
\* returns Ok and stores the value, also when the characters take more than
\* one byte each.
C22_TooLongIffOverCharBound ==
    [][call'.op = "set_attribute"
       => LET overlong == \/ CharCount(call'.args[2]) > MAX_STRING_LENGTH
                          \/ CharCount(call'.args[3]) > MAX_STRING_LENGTH
                          \/ CharCount(call'.args[4]) > MAX_STRING_LENGTH
          IN  /\ (result' = "InputTooLong") <=> overlong
              /\ (~overlong /\ can_write(call'.caller, call'.args[1]))
                 => /\ result' = "Ok"
                    /\ MappingGet(attributes',
                                  <<call'.args[1], call'.args[2], call'.args[3]>>)
                         = Some(call'.args[4])]_vars

\* C23: session grants and roots are never deleted: once get_session(id)
\* returns a grant it returns one in every later state, after revoke_session
\* too, and once get_root(s) returns a root it returns one in every later
\* state.
C23_GrantsAndRootsPersist ==
    [][/\ \A id \in SessionId :
             get_session(id) # OptNone => MappingGet(sessions', id) # OptNone
       /\ \A s \in Address :
             get_root(s) # OptNone => MappingGet(roots', s) # OptNone]_vars

\* a session was created and revoked, and get_session returns its grant, with
\* the fields it was created with
C23_Witness ==
    /\ call.op = "revoke_session"
    /\ result = "Ok"
    /\ events[Len(events)] = [event |-> "SessionRevoked", session_id |-> call.args[1]]
    /\ get_session(call.args[1])
         = Some(SessionGrant(<<3>>, "scopeB", 5, TRUE, block_number))

\* C24: under a host whose block number never decreases, every stored grant
\* has a created_at_block that is at most the current block number in every
\* state; nothing relates expires_at_block to created_at_block.
C24_CreatedAtMostCurrentBlock ==
    \A id \in DOMAIN sessions : sessions[id].created_at_block <= block_number

\* one grant has an expires_at_block below its created_at_block, which is the
\* current block; another grant was created in an earlier block and expires
\* after the current one
C24_Witness ==
    \E id \in DOMAIN sessions, other \in DOMAIN sessions :
        /\ sessions[id].expires_at_block < sessions[id].created_at_block
        /\ sessions[id].created_at_block = block_number
        /\ sessions[other].created_at_block < block_number
        /\ sessions[other].expires_at_block > block_number

====
